---- MODULE Spec2Model ----
(***************************************************************************)
(* A model of the DNS server of src/src/main.rs: the header, question and  *)
(* record codecs, the forwarding resolver and the receive loop of main.    *)
(*                                                                         *)
(* Bytes are naturals in 0..255 and byte strings are sequences of them.    *)
(* Rust slices are 0-based; At(s, i) reads s[i].  An indexing or slicing   *)
(* that Rust would abort on is the outcome "Panic"; a recursion that never *)
(* returns is the outcome "StackOverflow".                                 *)
(***************************************************************************)
EXTENDS Integers, Sequences, FiniteSets, TLC

VARIABLES
    build,      \* "debug" | "release": whether integer overflow is checked
    resolver,   \* maybe_resolver_socket.is_some()
    buf,        \* main's receive buffer, reused by every recv_from
    pc,         \* where main is: "recv", "query", "await", "stopped", "crashed"
    size,       \* the size the last recv_from returned
    request_header,  \* request_header, as decoded from the datagram being handled
    questions,  \* the questions decoded from it
    answers,    \* resolve_questions' answers so far
    queries,    \* the datagrams sent on the resolver socket for this request
    resp,       \* what the handling of the last datagram ended in
    req,        \* the datagram last received, as the client built it
    nrecv,      \* how many datagrams the loop has received
    hdr,        \* header codec: the header to encode
    hdrBytes,   \* header codec: its 12 bytes
    hdrBack,    \* header codec: what decoding them gives
    hpc,        \* header codec: "idle", "start", "encoded", "decoded"
    replies,    \* the datagrams received on the resolver socket for this request
    pin,        \* name and record codecs: the input, labels or bytes
    pout,       \* name and record codecs: what decoding gives
    pback,      \* name codec: the bytes encoding the decoded question gives
    ppc         \* name and record codecs: "idle", "name", "decoded", "reencoded",
                \* "record", "recordDone"

vars == <<build, resolver, buf, pc, size, request_header, questions, answers, queries,
          resp, req, nrecv, hdr, hdrBytes, hdrBack, hpc, replies, pin, pout, pback, ppc>>

serverVars == <<build, resolver, buf, pc, size, request_header, questions, answers,
                queries, resp, req, nrecv, replies>>

headerVars == <<hdr, hdrBytes, hdrBack, hpc>>

pureVars == <<pin, pout, pback, ppc>>

codecVars == <<hdr, hdrBytes, hdrBack, hpc, pin, pout, pback, ppc>>

(***************************************************************************)
(* Bounds of the model.                                                    *)
(***************************************************************************)
\* how many datagrams the receive loop takes in a run of Spec
MaxDatagrams == 2

\* how many questions a probe datagram of SpecDecode holds at most
MaxQuestions == 3

\* how many labels a name of SpecName holds at most, the longest name aside
MaxLabels == 3

\* how many bytes follow the rdata in an input of SpecRecord at most
MaxExtra == 2

(***************************************************************************)
(* Program constants.                                                      *)
(***************************************************************************)
\* let mut buf = [0; 512]
BufSize == 512

\* the header's length: buf[0..12], &buf[12..], size - 12, offset - 12
HeaderLen == 12

(***************************************************************************)
(* Integer and byte helpers.                                               *)
(***************************************************************************)
At(s, i) == s[i + 1]

\* &s[from..to]
Slice(s, from, to) == SubSeq(s, from + 1, to)

\* &s[from..]
SliceFrom(s, from) == SubSeq(s, from + 1, Len(s))

Zeros(n) == [i \in 1..n |-> 0]

\* u16::from_be_bytes
U16FromBe(hi, lo) == hi * 256 + lo

\* u16::to_be_bytes
U16ToBe(x) == <<(x \div 256) % 256, x % 256>>

\* u32::from_be_bytes
U32FromBe(b0, b1, b2, b3) == ((b0 * 256 + b1) * 256 + b2) * 256 + b3

\* u32::to_be_bytes
U32ToBe(x) == <<(x \div 16777216) % 256, (x \div 65536) % 256, (x \div 256) % 256, x % 256>>

\* (b & mask) != 0 for the one-bit mask 1 << k
BitSet(b, k) == (b \div (2 ^ k)) % 2 = 1

\* (b as u8) of a bool
BoolU8(b) == IF b THEN 1 ELSE 0

\* x << k on a u8: the bits shifted out are lost
Shl8(x, k) == (x * (2 ^ k)) % 256

RECURSIVE BitOr(_, _)
\* a | b
BitOr(a, b) ==
    IF a = 0 THEN b
    ELSE IF b = 0 THEN a
    ELSE (IF a % 2 = 1 \/ b % 2 = 1 THEN 1 ELSE 0) + 2 * BitOr(a \div 2, b \div 2)

(***************************************************************************)
(* DnsMessageHeader and its codec.                                         *)
(***************************************************************************)
NoHeader ==
    [id |-> 0, qr |-> FALSE, op_code |-> 0, aa |-> FALSE, tc |-> FALSE,
     rd |-> FALSE, ra |-> FALSE, z |-> 0, rcode |-> 0,
     qd_count |-> 0, an_count |-> 0, ns_count |-> 0, ar_count |-> 0]

\* impl TryFrom<&[u8]> for DnsMessageHeader
HeaderFromBytes(header_bytes) ==
    IF Len(header_bytes) # HeaderLen
    THEN [tag |-> "InvalidHeader", h |-> NoHeader]
    ELSE LET flags1 == At(header_bytes, 2)
             flags2 == At(header_bytes, 3)
         IN  [tag |-> "Ok",
              h |-> [id |-> U16FromBe(At(header_bytes, 0), At(header_bytes, 1)),
                     qr |-> BitSet(flags1, 7),
                     op_code |-> (flags1 \div 8) % 16,
                     aa |-> BitSet(flags1, 2),
                     tc |-> BitSet(flags1, 1),
                     rd |-> BitSet(flags1, 0),
                     ra |-> BitSet(flags2, 7),
                     z |-> (flags2 \div 16) % 8,
                     rcode |-> flags2 % 16,
                     qd_count |-> U16FromBe(At(header_bytes, 4), At(header_bytes, 5)),
                     an_count |-> U16FromBe(At(header_bytes, 6), At(header_bytes, 7)),
                     ns_count |-> U16FromBe(At(header_bytes, 8), At(header_bytes, 9)),
                     ar_count |-> U16FromBe(At(header_bytes, 10), At(header_bytes, 11))]]

\* a slip in the flag packing: z shifted by 3 instead of 4
HeaderToBytesZShift(h) ==
    U16ToBe(h.id)
    \o <<BitOr(BitOr(BitOr(BitOr(Shl8(BoolU8(h.qr), 7), Shl8(h.op_code, 3)),
                           Shl8(BoolU8(h.aa), 2)),
                     Shl8(BoolU8(h.tc), 1)),
               BoolU8(h.rd)),
         BitOr(BitOr(Shl8(BoolU8(h.ra), 7), Shl8(h.z, 3)), h.rcode)>>
    \o U16ToBe(h.qd_count) \o U16ToBe(h.an_count)
    \o U16ToBe(h.ns_count) \o U16ToBe(h.ar_count)

\* impl From<&DnsMessageHeader> for [u8; 12]
HeaderToBytes(h) ==
    U16ToBe(h.id)
    \o <<BitOr(BitOr(BitOr(BitOr(Shl8(BoolU8(h.qr), 7), Shl8(h.op_code, 3)),
                           Shl8(BoolU8(h.aa), 2)),
                     Shl8(BoolU8(h.tc), 1)),
               BoolU8(h.rd)),
         BitOr(BitOr(Shl8(BoolU8(h.ra), 7), Shl8(h.z, 4)), h.rcode)>>
    \o U16ToBe(h.qd_count) \o U16ToBe(h.an_count)
    \o U16ToBe(h.ns_count) \o U16ToBe(h.ar_count)

(***************************************************************************)
(* DnsMessageQuestion, DnsMessageResponse and their encodings.             *)
(***************************************************************************)
\* impl From<&DnsMessageQuestion> for Vec<u8>
QuestionToBytes(q) == q.name \o U16ToBe(q.qtype) \o U16ToBe(q.class)

\* impl From<&DnsMessageResponse> for Vec<u8>
ResponseToBytes(r) ==
    r.name \o U16ToBe(r.qtype) \o U16ToBe(r.class) \o U32ToBe(r.ttl)
    \o U16ToBe(r.length) \o r.data

RECURSIVE QuestionsToBytes(_)
\* questions.iter().flat_map(Vec::from).collect()
QuestionsToBytes(qs) ==
    IF qs = <<>> THEN <<>> ELSE QuestionToBytes(Head(qs)) \o QuestionsToBytes(Tail(qs))

RECURSIVE AnswersToBytes(_)
\* answers.iter().flat_map(Vec::from).collect()
AnswersToBytes(ans) ==
    IF ans = <<>> THEN <<>> ELSE ResponseToBytes(Head(ans)) \o AnswersToBytes(Tail(ans))

(***************************************************************************)
(* dns_questions_from_bytes and the functions nested in it.                *)
(* A result is [tag, labels, consumed] for a name, [tag, q, consumed] for  *)
(* a question and [tag, qs] for the section; the tags are "Ok",            *)
(* "InvalidQuestion" (the Err), "Panic" and "StackOverflow".               *)
(***************************************************************************)
\* fn is_valid_compression_pointer: byte >> 6 & 0b0000_0011 == 0b0000_0011
is_valid_compression_pointer(byte) == (byte \div 64) % 4 = 3

NameResult(tag, labels, consumed) ==
    [tag |-> tag, labels |-> labels, consumed |-> consumed]

\* a slip in the pointer arm: the bytes of the pointed-to name are counted too
PointerConsumedWithTarget(inline, target) == inline + target.consumed

\* the pointer arm's index += 1 and the final index + 1 - l_index: what a name
\* ending in a pointer consumes, `inline` being index - l_index at the pointer
PointerConsumed(inline, target) == inline + 1 + 1

\* a slip in the zero arm: the name is left without its zero byte
PushNothing(labels) == labels

\* the zero arm's labels.push(b'\0')
PushTerminator(labels) == Append(labels, 0)

\* a slip in the label arm: the length byte is left out of the name
LabelSliceNoLength(data, index, len) == Slice(data, index + 1, index + len + 1)

\* the label arm's &data[index..index + len + 1]: the length byte and the label
LabelSlice(data, index, len) == Slice(data, index, index + len + 1)

RECURSIVE parse_labels_loop(_, _, _, _, _)
\* fn parse_labels: the loop, at `index` with `labels` collected so far.
\* `chain` holds the l_index of every parse_labels call on the stack: a call
\* whose l_index is already there repeats an outer call and never returns.
parse_labels_loop(data, l_index, index, labels, chain) ==
    IF index >= Len(data)
    THEN NameResult("Panic", <<>>, 0)                     \* data[index]
    ELSE LET b == At(data, index) IN
         IF b = 0
         THEN NameResult("Ok", PushTerminator(labels), index + 1 - l_index)
         ELSE IF b \in 1..63
         THEN IF index + b + 1 > Len(data)
              THEN NameResult("Panic", <<>>, 0)           \* data[index..index + len + 1]
              ELSE parse_labels_loop(data, l_index, index + b + 1,
                                   labels \o LabelSlice(data, index, b), chain)
         ELSE IF is_valid_compression_pointer(b)
         THEN IF index + 1 >= Len(data)
              THEN NameResult("Panic", <<>>, 0)           \* data[index + 1]
              ELSE LET offset == U16FromBe(b, At(data, index + 1)) % 16384 IN
                   \* offset as usize - 12: below 12 a debug build aborts on the
                   \* subtraction, a release build wraps and aborts on data[index]
                   IF offset < HeaderLen
                   THEN NameResult("Panic", <<>>, 0)
                   ELSE IF (offset - HeaderLen) \in chain
                   THEN NameResult("StackOverflow", <<>>, 0)
                   ELSE LET target == parse_labels_loop(data, offset - HeaderLen,
                                         offset - HeaderLen, <<>>,
                                         chain \cup {offset - HeaderLen})
                        IN  IF target.tag # "Ok"
                            THEN target
                            ELSE NameResult("Ok", labels \o target.labels,
                                            PointerConsumed(index - l_index, target))
         ELSE NameResult("InvalidQuestion", <<>>, 0)

\* fn parse_labels(data, l_index)
parse_labels(data, l_index) == parse_labels_loop(data, l_index, l_index, <<>>, {l_index})

NoQuestion == [name |-> <<>>, qtype |-> 0, class |-> 0]

\* let size_in_bytes = label_size_in_bytes + 4
QuestionSize(label_size_in_bytes) == label_size_in_bytes + 4

QuestionResult(tag, q, consumed) == [tag |-> tag, q |-> q, consumed |-> consumed]

\* fn parse_question(data, size, q_index)
parse_question(data, qsize, q_index) ==
    IF q_index >= Len(data)
    THEN QuestionResult("Panic", NoQuestion, 0)           \* data[q_index]
    ELSE IF At(data, q_index) = 0
    THEN QuestionResult("InvalidQuestion", NoQuestion, 0)
    ELSE IF qsize < q_index + At(data, q_index) + 1
    THEN QuestionResult("InvalidQuestion", NoQuestion, 0)
    ELSE LET r == parse_labels(data, q_index) IN
         IF r.tag # "Ok"
         THEN QuestionResult(r.tag, NoQuestion, 0)
         ELSE IF q_index + r.consumed + 4 > qsize
         THEN QuestionResult("InvalidQuestion", NoQuestion, 0)
         ELSE IF q_index + r.consumed + 3 >= Len(data)
         THEN QuestionResult("Panic", NoQuestion, 0)      \* data[q_index + label_size_in_bytes + ..]
         ELSE QuestionResult("Ok",
                  [name |-> r.labels,
                   qtype |-> U16FromBe(At(data, q_index + r.consumed),
                                       At(data, q_index + r.consumed + 1)),
                   class |-> U16FromBe(At(data, q_index + r.consumed + 2),
                                       At(data, q_index + r.consumed + 3))],
                  QuestionSize(r.consumed))

RECURSIVE dns_questions_loop(_, _, _, _, _)
\* the for loop of dns_questions_from_bytes with `left` iterations to go
dns_questions_loop(data, qsize, left, index, qs) ==
    IF left = 0
    THEN [tag |-> "Ok", qs |-> qs]
    ELSE LET r == parse_question(data, qsize, index) IN
         IF r.tag # "Ok"
         THEN [tag |-> r.tag, qs |-> <<>>]
         ELSE dns_questions_loop(data, qsize, left - 1, index + r.consumed, Append(qs, r.q))

\* fn dns_questions_from_bytes(data, size, nr_of_questions)
dns_questions_from_bytes(data, qsize, nr_of_questions) ==
    dns_questions_loop(data, qsize, nr_of_questions, 0, <<>>)

(***************************************************************************)
(* dns_response_from_bytes: one record of an upstream reply.               *)
(***************************************************************************)
NoRecord ==
    [name |-> <<>>, qtype |-> 0, class |-> 0, ttl |-> 0, length |-> 0, data |-> <<>>]

RECURSIVE TakeWhileNonZero(_)
\* data.iter().take_while(|b| **b != b'\0').collect()
TakeWhileNonZero(data) ==
    IF data = <<>> \/ Head(data) = 0
    THEN <<>>
    ELSE <<Head(data)>> \o TakeWhileNonZero(Tail(data))

\* Vec::from(&data[data_start_idx..data_start_idx + length as usize])
Rdata(data, data_start_idx, length) == Slice(data, data_start_idx, data_start_idx + length)

\* fn dns_response_from_bytes(data)
dns_response_from_bytes(data) ==
    IF Len(data) = 0
    THEN [tag |-> "Panic", r |-> NoRecord]                \* data[0]
    ELSE IF At(data, 0) = 0
    THEN [tag |-> "InvalidResponse", r |-> NoRecord]
    ELSE LET name == Append(TakeWhileNonZero(data), 0)
             n == Len(name)
         IN  IF n + 10 > Len(data)
             THEN [tag |-> "InvalidResponse", r |-> NoRecord]
             ELSE LET length == U16FromBe(At(data, n + 8), At(data, n + 9)) IN
                  IF n + 10 + length > Len(data)
                  THEN [tag |-> "InvalidResponse", r |-> NoRecord]
                  ELSE [tag |-> "Ok",
                        r |-> [name |-> name,
                               qtype |-> U16FromBe(At(data, n), At(data, n + 1)),
                               class |-> U16FromBe(At(data, n + 2), At(data, n + 3)),
                               ttl |-> U32FromBe(At(data, n + 4), At(data, n + 5),
                                                 At(data, n + 6), At(data, n + 7)),
                               length |-> length,
                               data |-> Rdata(data, n + 10, length)]]

(***************************************************************************)
(* resolve_questions, one blocking call at a time.                         *)
(***************************************************************************)
\* a slip: the request's qd_count is forwarded as it came
resolver_req_header_as_received(h) == h

\* resolver_req_header: header.clone() with qd_count = 1
resolver_req_header(h) == [h EXCEPT !.qd_count = 1]

\* resolver_req_bytes: the query sent for question q
resolver_req_bytes(h, q) == HeaderToBytes(resolver_req_header(h)) \o QuestionToBytes(q)

\* resolver_buf = [0; 512] after recv_from stored `reply` in it
resolver_buf(reply) ==
    IF Len(reply) >= BufSize
    THEN SubSeq(reply, 1, BufSize)
    ELSE reply \o Zeros(BufSize - Len(reply))

\* a slip: the record is read right after the reply's header
DecodeReplyAfterHeader(reply, q) ==
    dns_response_from_bytes(SliceFrom(resolver_buf(reply), HeaderLen))

\* dns_response_from_bytes(&resolver_buf[12 + resolver_question_bytes.len()..])
DecodeReply(reply, q) ==
    LET start == HeaderLen + Len(QuestionToBytes(q)) IN
    IF start > BufSize
    THEN [tag |-> "Panic", r |-> NoRecord]                \* the slice's start is past the end
    ELSE dns_response_from_bytes(SliceFrom(resolver_buf(reply), start))

(***************************************************************************)
(* The response main builds.                                               *)
(***************************************************************************)
\* a slip: rcode always cleared
ResponseRcodeAlwaysZero(op_code) == 0

\* rcode recomputed from op_code
ResponseRcode(op_code) == IF op_code = 0 THEN 0 ELSE 4

\* a slip: an_count left as the request had it
AnsweredResponseStaleCount(h, qs, ans) ==
    HeaderToBytes([h EXCEPT !.qr = TRUE,
                            !.qd_count = Len(qs) % 65536,
                            !.rcode = ResponseRcode(h.op_code)])
    \o QuestionsToBytes(qs) \o AnswersToBytes(ans)

\* the record an earlier stage of the server made up for a question
SynthesizedAnswer(q) ==
    [name |-> q.name, qtype |-> q.qtype, class |-> q.class, ttl |-> 60, length |-> 4,
     data |-> <<8, 8, 8, 8>>]

\* a slip: with no answers from a resolver, one made-up answer per question
AnsweredResponseSynthesized(h, qs, ans) ==
    LET all == IF ans = <<>> THEN [i \in 1..Len(qs) |-> SynthesizedAnswer(qs[i])] ELSE ans IN
    HeaderToBytes([h EXCEPT !.qr = TRUE,
                            !.qd_count = Len(qs) % 65536,
                            !.an_count = Len(all) % 65536,
                            !.rcode = ResponseRcode(h.op_code)])
    \o QuestionsToBytes(qs) \o AnswersToBytes(all)

\* the answered branch: request_header updated in place, then header,
\* questions and answers concatenated
AnsweredResponse(h, qs, ans) ==
    HeaderToBytes([h EXCEPT !.qr = TRUE,
                            !.qd_count = Len(qs) % 65536,
                            !.an_count = Len(ans) % 65536,
                            !.rcode = ResponseRcode(h.op_code)])
    \o QuestionsToBytes(qs) \o AnswersToBytes(ans)

\* a slip: the fallback answers with the header alone
FallbackResponseHeaderOnly(h, qs) ==
    HeaderToBytes([h EXCEPT !.qr = TRUE,
                            !.qd_count = Len(qs) % 65536,
                            !.an_count = 0,
                            !.rcode = ResponseRcode(h.op_code)])

\* the branch taken when resolve_questions returned Err: no answer section
FallbackResponse(h, qs) ==
    HeaderToBytes([h EXCEPT !.qr = TRUE,
                            !.qd_count = Len(qs) % 65536,
                            !.an_count = 0,
                            !.rcode = ResponseRcode(h.op_code)])
    \o QuestionsToBytes(qs)

(***************************************************************************)
(* The clients' datagrams.  A question is described by its inline labels   *)
(* and, when its name ends in a compression pointer, by the earlier        *)
(* question `ptr` whose name the pointer targets after skipping `skip` of  *)
(* that name's inline labels (ptr = 0: the name ends in the zero byte).    *)
(***************************************************************************)
QDesc(labels, ptr, skip, qtype, class) ==
    [labels |-> labels, ptr |-> ptr, skip |-> skip, qtype |-> qtype, class |-> class]

RECURSIVE WireLabels(_)
\* the labels, each behind its length byte
WireLabels(ls) ==
    IF ls = <<>> THEN <<>> ELSE <<Len(Head(ls))>> \o Head(ls) \o WireLabels(Tail(ls))

\* the bytes a name takes in the datagram: its labels, then 0 or a pointer
WireNameLen(d) == Len(WireLabels(d.labels)) + (IF d.ptr = 0 THEN 1 ELSE 2)

RECURSIVE NameOffset(_, _)
\* the offset in the datagram of the name of question i
NameOffset(qs, i) ==
    IF i = 1 THEN HeaderLen ELSE NameOffset(qs, i - 1) + WireNameLen(qs[i - 1]) + 4

\* how many labels of its target's name the pointer of question i skips
Skipped(qs, i) ==
    IF qs[i].skip <= Len(qs[qs[i].ptr].labels) THEN qs[i].skip ELSE Len(qs[qs[i].ptr].labels)

\* the offset the pointer of question i holds
PointerTarget(qs, i) ==
    NameOffset(qs, qs[i].ptr) + Len(WireLabels(SubSeq(qs[qs[i].ptr].labels, 1, Skipped(qs, i))))

WireQuestion(qs, i) ==
    WireLabels(qs[i].labels)
    \o (IF qs[i].ptr = 0
        THEN <<0>>
        ELSE <<192 + (PointerTarget(qs, i) \div 256), PointerTarget(qs, i) % 256>>)
    \o U16ToBe(qs[i].qtype) \o U16ToBe(qs[i].class)

RECURSIVE WireQuestions(_, _)
\* questions 1..n back to back
WireQuestions(qs, n) ==
    IF n = 0 THEN <<>> ELSE WireQuestions(qs, n - 1) \o WireQuestion(qs, n)

RECURSIVE ExpandedName(_, _, _)
\* the name of question i from its `skip`-th label on, pointers followed
ExpandedName(qs, i, skip) ==
    WireLabels(SubSeq(qs[i].labels, skip + 1, Len(qs[i].labels)))
    \o (IF qs[i].ptr = 0 THEN <<0>> ELSE ExpandedName(qs, qs[i].ptr, Skipped(qs, i)))

\* the question a correct decoder returns for question i
ExpectedQuestion(qs, i) ==
    [name |-> ExpandedName(qs, i, 0), qtype |-> qs[i].qtype, class |-> qs[i].class]

\* the 12 header bytes a client sends: a query with rd set
ClientHeader(id, op_code, qd) ==
    U16ToBe(id) \o <<op_code * 8 + 1, 0>> \o U16ToBe(qd) \o <<0, 0, 0, 0, 0, 0>>

\* the datagram of a request with questions qs, its last `cut` bytes removed
Request(kind, id, op_code, qs, cut) ==
    LET whole == ClientHeader(id, op_code, Len(qs)) \o WireQuestions(qs, Len(qs)) IN
    [kind |-> kind, id |-> id, op_code |-> op_code, qs |-> qs, cut |-> cut,
     bytes |-> SubSeq(whole, 1, Len(whole) - cut)]

NoRequest ==
    [kind |-> "none", id |-> 0, op_code |-> 0, qs |-> <<>>, cut |-> 0, bytes |-> <<>>]

\* a datagram that is no request: raw bytes
RawDatagram(kind, bytes) ==
    [kind |-> kind, id |-> 0, op_code |-> 0, qs |-> <<>>, cut |-> 0, bytes |-> bytes]

\* "a", "bc.d", and names ending in a pointer to question j
QA == QDesc(<<<<97>>>>, 0, 0, 1, 1)

QB == QDesc(<<<<98, 99>>, <<100>>>>, 0, 0, 28, 3)

QPtr(j) == QDesc(<<<<101>>>>, j, 0, 5, 1)

QPtrOnly(j) == QDesc(<<>>, j, 0, 16, 1)

QPtrSuffix(j) == QDesc(<<<<102>>>>, j, 1, 15, 4)

\* a request for "a" whose header has aa, tc, rd, ra set, z = 5, rcode = 3
\* and an_count = 7, ns_count = 2, ar_count = 3
FlagsRequest ==
    [kind |-> "query", id |-> 43981, op_code |-> 0, qs |-> <<QA>>, cut |-> 0,
     bytes |-> <<171, 205, 7, 211, 0, 1, 0, 7, 0, 2, 0, 3>> \o WireQuestions(<<QA>>, 1)]

\* the requests of Spec
RequestLists ==
    { <<>>, <<QA>>, <<QB, QPtr(1)>>, <<QA, QPtrOnly(1)>>, <<QA, QB, QPtrSuffix(2)>> }

Requests ==
    { Request("query", 4660, op, qs, 0) : op \in {0, 1}, qs \in RequestLists }
    \cup { Request("query", 4660, 0, <<QA>>, 1),
           RawDatagram("short", <<18, 52, 1, 0, 0>>),
           RawDatagram("below", ClientHeader(4660, 0, 1) \o <<1, 101, 192, 0, 0, 1, 0, 1>>),
           FlagsRequest }

\* the questions a probe of SpecDecode may hold at position i: "a", "bc.d",
\* or a name ending in a pointer into the name of an earlier question
ProbeQuestions(i) ==
    {QA, QB} \cup UNION { {QPtr(j), QPtrOnly(j), QPtrSuffix(j)} : j \in 1..(i - 1) }

RECURSIVE ProbeLists(_)
\* the question lists of length k
ProbeLists(k) ==
    IF k = 0
    THEN {<<>>}
    ELSE { Append(l, q) : l \in ProbeLists(k - 1), q \in ProbeQuestions(k) }

\* the bytes the last question of qs takes in the datagram
LastQuestionLen(qs) == IF qs = <<>> THEN 0 ELSE Len(WireQuestion(qs, Len(qs)))

\* the probes: up to MaxQuestions questions, whole or with the last
\* question cut short by 1 byte or more, up to all of it
Probes ==
    UNION { { Request("probe", 4660, 0, qs, cut) : cut \in 0..LastQuestionLen(qs) } :
            qs \in UNION { ProbeLists(k) : k \in 0..MaxQuestions } }

\* datagrams that leave bytes behind in buf: no question declared, then a
\* buffer full of 63-byte labels, or a run of pointers to offset 12
Primers ==
    { RawDatagram("primer", ClientHeader(1, 0, 0) \o [i \in 1..(BufSize - HeaderLen) |-> 63]),
      RawDatagram("primer", ClientHeader(2, 0, 0)
                            \o [i \in 1..52 |-> IF i % 2 = 1 THEN 192 ELSE 12]),
      Request("primer", 3, 0, <<QB, QA>>, 0) }

\* one question "e" whose name ends in a pointer to `offset`
PointerDatagram(kind, offset) ==
    RawDatagram(kind, ClientHeader(4660, 0, 1)
                      \o <<1, 101, 192 + (offset \div 256), offset % 256, 0, 1, 0, 1>>)

\* crafted datagrams: a pointer to its own offset, two pointers to each
\* other, a pointer into the header, a pointer past the datagram's 20 bytes,
\* and 6 bytes that end inside the header's qd_count of 1
Crafted ==
    { PointerDatagram("selfptr", 14),
      RawDatagram("cycle", ClientHeader(4660, 0, 1)
                           \o <<1, 101, 192, 16, 1, 102, 192, 14, 0, 1, 0, 1>>),
      PointerDatagram("below", 0),
      PointerDatagram("beyond", 22),
      RawDatagram("short", <<18, 52, 1, 0, 0, 1>>) }

(***************************************************************************)
(* The upstream resolver's replies to a query for question q.              *)
(***************************************************************************)
\* the query's header with qr set and an_count = 1, and the question echoed
ReplyPrefix(query) ==
    SubSeq(query, 1, 2) \o <<BitOr(query[3], 128), query[4]>> \o SubSeq(query, 5, 6)
    \o <<0, 1>> \o SubSeq(query, 9, Len(query))

UpstreamReply(kind, query, q) ==
    CASE kind = "good" ->
             ReplyPrefix(query) \o q.name \o U16ToBe(q.qtype) \o U16ToBe(q.class)
             \o <<0, 0, 0, 60>> \o <<0, 4>> \o <<8, 8, 8, 8>>
      [] kind = "compressed" ->
             ReplyPrefix(query) \o <<192, 12>> \o U16ToBe(q.qtype) \o U16ToBe(q.class)
             \o <<0, 0, 0, 60>> \o <<0, 4>> \o <<8, 8, 8, 8>>
      [] kind = "overrun" ->
             ReplyPrefix(query) \o q.name \o U16ToBe(q.qtype) \o U16ToBe(q.class)
             \o <<0, 0, 0, 60>> \o <<255, 255>> \o <<8, 8, 8, 8>>
      [] OTHER -> query

ReplyKinds == {"good", "compressed", "overrun", "empty"}

(***************************************************************************)
(* main: the receive loop.                                                 *)
(***************************************************************************)
\* the modulus of usize, 2^64 in the code, here a smaller power of 2: the code
\* compares sizes only with indexes below 2^10, so the order is kept
UsizeModulus == 2 ^ 30

\* buf after recv_from stored the datagram: the bytes past it stay
Stored(old, bytes) ==
    IF Len(bytes) >= BufSize
    THEN SubSeq(bytes, 1, BufSize)
    ELSE bytes \o SubSeq(old, Len(bytes) + 1, BufSize)

\* the size recv_from returns
Received(bytes) == IF Len(bytes) >= BufSize THEN BufSize ELSE Len(bytes)

\* size - 12 in a release build: the subtraction wraps
QuestionsSize(n) == IF n >= HeaderLen THEN n - HeaderLen ELSE UsizeModulus + n - HeaderLen

Outcome(kind, bytes) == [kind |-> kind, bytes |-> bytes]

\* udp_socket.recv_from(&mut buf) returned Ok: the datagram is handled up to
\* the response, or up to the first query to the resolver
Receive(r) ==
    /\ pc = "recv"
    /\ LET nbuf == Stored(buf, r.bytes)
           n == Received(r.bytes)
           hres == HeaderFromBytes(Slice(nbuf, 0, HeaderLen))
           qres == dns_questions_from_bytes(SliceFrom(nbuf, HeaderLen), QuestionsSize(n),
                                         hres.h.qd_count)
       IN  /\ buf' = nbuf
           /\ size' = n
           /\ req' = r
           /\ nrecv' = nrecv + 1
           /\ queries' = <<>>
           /\ answers' = <<>>
           /\ replies' = <<>>
           /\ IF hres.tag # "Ok"
              THEN /\ pc' = "recv"
                   /\ resp' = Outcome("noheader", <<>>)
                   /\ request_header' = NoHeader
                   /\ questions' = <<>>
              ELSE IF (n < HeaderLen /\ build = "debug")
                      \/ qres.tag \in {"Panic", "StackOverflow"}
              THEN /\ pc' = "crashed"
                   /\ resp' = Outcome("crashed", <<>>)
                   /\ request_header' = hres.h
                   /\ questions' = <<>>
              ELSE IF qres.tag # "Ok"
              THEN /\ pc' = "recv"
                   /\ resp' = Outcome("noquestions", <<>>)
                   /\ request_header' = hres.h
                   /\ questions' = <<>>
              ELSE IF resolver /\ qres.qs # <<>>
              THEN /\ pc' = "query"
                   /\ resp' = Outcome("pending", <<>>)
                   /\ request_header' = hres.h
                   /\ questions' = qres.qs
              ELSE /\ pc' = "recv"
                   /\ resp' = Outcome("answered", AnsweredResponse(hres.h, qres.qs, <<>>))
                   /\ request_header' = hres.h
                   /\ questions' = qres.qs
    /\ UNCHANGED <<build, resolver, codecVars>>

\* udp_socket.recv_from returned Err: break
RecvError ==
    /\ pc = "recv"
    /\ pc' = "stopped"
    /\ UNCHANGED <<build, resolver, buf, size, request_header, questions, answers, queries,
                   resp, req, nrecv, replies, codecVars>>

\* the question resolve_questions' loop is at
CurrentQuestion == questions[Len(answers) + 1]

\* resolver_socket.send(..) returned Ok
SendQuery ==
    /\ pc = "query"
    /\ queries' = Append(queries, resolver_req_bytes(request_header, CurrentQuestion))
    /\ pc' = "await"
    /\ UNCHANGED <<build, resolver, buf, size, request_header, questions, answers, resp, req,
                   nrecv, replies, codecVars>>

\* resolver_socket.send(..) or recv_from(..) returned Err: resolve_questions
\* returns it and main answers without an answer section
ResolverIoError ==
    /\ pc \in {"query", "await"}
    /\ resp' = Outcome("fallback", FallbackResponse(request_header, questions))
    /\ pc' = "recv"
    /\ UNCHANGED <<build, resolver, buf, size, request_header, questions, answers, queries, req,
                   nrecv, replies, codecVars>>

\* resolver_socket.recv_from(..) returned Ok with `reply` in resolver_buf
RecvReply(kind) ==
    /\ pc = "await"
    /\ LET reply == UpstreamReply(kind, queries[Len(queries)], CurrentQuestion)
           dres == DecodeReply(reply, CurrentQuestion)
           got == Append(answers, dres.r)
       IN  /\ replies' = Append(replies, reply)
           /\ IF dres.tag = "Panic"
              THEN /\ pc' = "crashed"
                   /\ resp' = Outcome("crashed", <<>>)
                   /\ answers' = answers
              ELSE IF dres.tag # "Ok"
              THEN /\ pc' = "recv"
                   /\ resp' = Outcome("fallback", FallbackResponse(request_header, questions))
                   /\ answers' = answers
              ELSE IF Len(got) < Len(questions)
              THEN /\ pc' = "query"
                   /\ resp' = resp
                   /\ answers' = got
              ELSE /\ pc' = "recv"
                   /\ resp' = Outcome("answered",
                                      AnsweredResponse(request_header, questions, got))
                   /\ answers' = got
    /\ UNCHANGED <<build, resolver, buf, size, request_header, questions, queries, req, nrecv,
                   codecVars>>

InitServer ==
    /\ build \in {"debug", "release"}
    /\ resolver \in BOOLEAN
    /\ buf = Zeros(BufSize)
    /\ pc = "recv"
    /\ size = 0
    /\ request_header = NoHeader
    /\ questions = <<>>
    /\ answers = <<>>
    /\ queries = <<>>
    /\ resp = Outcome("none", <<>>)
    /\ req = NoRequest
    /\ nrecv = 0
    /\ replies = <<>>

HeaderIdle ==
    /\ hdr = NoHeader
    /\ hdrBytes = <<>>
    /\ hdrBack = [tag |-> "none", h |-> NoHeader]
    /\ hpc = "idle"

PureIdle ==
    /\ pin = <<>>
    /\ pout = [tag |-> "none"]
    /\ pback = <<>>
    /\ ppc = "idle"

CodecIdle == HeaderIdle /\ PureIdle

Init == InitServer /\ CodecIdle

Next ==
    \/ \E r \in Requests : nrecv < MaxDatagrams /\ Receive(r)
    \/ RecvError
    \/ SendQuery
    \/ ResolverIoError
    \/ \E kind \in ReplyKinds : RecvReply(kind)

Spec == Init /\ [][Next]_vars

(***************************************************************************)
(* The question decoder on its own: one probe datagram, on a fresh buffer  *)
(* or on the buffer an earlier datagram left.                              *)
(***************************************************************************)
InitDecode == InitServer /\ resolver = FALSE /\ CodecIdle

NextDecode ==
    \/ \E r \in Primers : nrecv = 0 /\ Receive(r)
    \/ \E r \in Probes : req.kind \in {"none", "primer"} /\ Receive(r)
    \/ \E r \in Crafted : req.kind \in {"none", "primer"} /\ Receive(r)

SpecDecode == InitDecode /\ [][NextDecode]_vars

(***************************************************************************)
(* The header codec on its own: encode a header, decode the bytes.         *)
(***************************************************************************)
Header(id, qr, op_code, aa, tc, rd, ra, z, rcode, qd, an, ns, ar) ==
    [id |-> id, qr |-> qr, op_code |-> op_code, aa |-> aa, tc |-> tc, rd |-> rd,
     ra |-> ra, z |-> z, rcode |-> rcode,
     qd_count |-> qd, an_count |-> an, ns_count |-> ns, ar_count |-> ar]

\* every value of each flag byte against some values of the other, and the
\* ids and counts at the ends and in the middle of 16 bits
HeaderInputs ==
    { Header(4660, qr, op, aa, tc, rd, f[1], f[2], f[3], 1, 0, 0, 0) :
        qr \in BOOLEAN, op \in 0..15, aa \in BOOLEAN, tc \in BOOLEAN, rd \in BOOLEAN,
        f \in {<<FALSE, 0, 0>>, <<TRUE, 7, 15>>, <<FALSE, 5, 10>>, <<TRUE, 2, 5>>} }
    \cup
    { Header(4660, f[1], f[2], f[3], f[4], f[5], ra, z, rcode, 1, 0, 0, 0) :
        ra \in BOOLEAN, z \in 0..7, rcode \in 0..15,
        f \in {<<FALSE, 0, FALSE, FALSE, FALSE>>, <<TRUE, 15, TRUE, TRUE, TRUE>>,
               <<FALSE, 10, TRUE, FALSE, TRUE>>, <<TRUE, 5, FALSE, TRUE, FALSE>>} }
    \cup
    { Header(id, FALSE, 0, FALSE, FALSE, TRUE, FALSE, 0, 0, qd, an, ns, ar) :
        id \in {0, 255, 256, 4660, 65535}, qd \in {0, 258, 65535}, an \in {0, 258, 65535},
        ns \in {0, 258, 65535}, ar \in {0, 258, 65535} }

InitHeader ==
    /\ InitServer
    /\ build = "release"
    /\ resolver = FALSE
    /\ hdr \in HeaderInputs
    /\ hdrBytes = <<>>
    /\ hdrBack = [tag |-> "none", h |-> NoHeader]
    /\ hpc = "start"
    /\ PureIdle

\* let bytes: [u8; 12] = (&hdr).into()
EncodeHeader ==
    /\ hpc = "start"
    /\ hdrBytes' = HeaderToBytes(hdr)
    /\ hpc' = "encoded"
    /\ UNCHANGED <<serverVars, hdr, hdrBack, pureVars>>

\* DnsMessageHeader::try_from(&bytes[..])
DecodeHeader ==
    /\ hpc = "encoded"
    /\ hdrBack' = HeaderFromBytes(hdrBytes)
    /\ hpc' = "decoded"
    /\ UNCHANGED <<serverVars, hdr, hdrBytes, pureVars>>

NextHeader == EncodeHeader \/ DecodeHeader

SpecHeader == InitHeader /\ [][NextHeader]_vars

(***************************************************************************)
(* The name codec on its own: a question with an uncompressed name is      *)
(* decoded, and the decoded question is encoded again.                     *)
(***************************************************************************)
\* labels of 1, 2 and 63 bytes; a zero byte and a pointer's bytes as content
LabelChoices == { <<97>>, <<0>>, <<192, 12>>, [i \in 1..63 |-> 45] }

RECURSIVE LabelLists(_)
\* the label sequences of length k
LabelLists(k) ==
    IF k = 0
    THEN {<<>>}
    ELSE { Append(l, c) : l \in LabelLists(k - 1), c \in LabelChoices }

\* 7 labels of 63 bytes and one of 62: 512 bytes encoded
LongestName == [i \in 1..8 |-> [j \in 1..(IF i < 8 THEN 63 ELSE 62) |-> 45]]

NameInputs == UNION { LabelLists(k) : k \in 1..MaxLabels } \cup {LongestName}

\* the encoded form of a label sequence: the labels behind their length
\* bytes, then the zero byte
EncodedName(ls) == WireLabels(ls) \o <<0>>

\* a question section holding that name, qtype 1 and class 1
NameQuestion(ls) == EncodedName(ls) \o <<0, 1, 0, 1>>

InitName ==
    /\ InitServer
    /\ build = "release"
    /\ resolver = FALSE
    /\ HeaderIdle
    /\ pin \in NameInputs
    /\ pout = [tag |-> "none"]
    /\ pback = <<>>
    /\ ppc = "name"

\* dns_questions_from_bytes(data, data.len(), &1)
DecodeName ==
    /\ ppc = "name"
    /\ pout' = dns_questions_from_bytes(NameQuestion(pin), Len(NameQuestion(pin)), 1)
    /\ ppc' = "decoded"
    /\ UNCHANGED <<serverVars, headerVars, pin, pback>>

\* Vec::from(&question) for the question decoded
ReencodeName ==
    /\ ppc = "decoded"
    /\ pout.tag = "Ok"
    /\ pback' = QuestionsToBytes(pout.qs)
    /\ ppc' = "reencoded"
    /\ UNCHANGED <<serverVars, headerVars, pin, pout>>

NextName == DecodeName \/ ReencodeName

SpecName == InitName /\ [][NextName]_vars

(***************************************************************************)
(* The record decoder on its own: records with a true or a false rdlength, *)
(* whole or cut short, or behind a zero byte.                              *)
(***************************************************************************)
\* "a", "bc.d", and a pointer where the name should be
RecordNames == { <<1, 97, 0>>, <<2, 98, 99, 1, 100, 0>>, <<192, 12>> }

\* the rdlength declared for 4 bytes of rdata
RecordLengths == {0, 4, 5, 300}

WholeRecords ==
    { name \o <<0, 1, 0, 1>> \o <<0, 0, 0, 60>> \o U16ToBe(length) \o <<8, 8, 8, 8>>
      \o [i \in 1..extra |-> 9] :
        name \in RecordNames, length \in RecordLengths, extra \in 0..MaxExtra }

RecordInputs ==
    UNION { { SubSeq(w, 1, k) : k \in 0..Len(w) } : w \in WholeRecords }
    \cup { <<0>> \o w : w \in WholeRecords }

InitRecord ==
    /\ InitServer
    /\ build = "release"
    /\ resolver = FALSE
    /\ HeaderIdle
    /\ pin \in RecordInputs
    /\ pout = [tag |-> "none"]
    /\ pback = <<>>
    /\ ppc = "record"

\* dns_response_from_bytes(data)
DecodeRecord ==
    /\ ppc = "record"
    /\ pout' = dns_response_from_bytes(pin)
    /\ ppc' = "recordDone"
    /\ UNCHANGED <<serverVars, headerVars, pin, pback>>

NextRecord == DecodeRecord

SpecRecord == InitRecord /\ [][NextRecord]_vars

(***************************************************************************)
(* What the claims read from a state.                                      *)
(***************************************************************************)
\* a response was handed to send_to for the datagram last handled
Sent == resp.kind \in {"answered", "fallback"}

\* the header of that response, decoded from its bytes
RespHeader == HeaderFromBytes(SubSeq(resp.bytes, 1, HeaderLen)).h

\* what follows the header in it
RespBody == SliceFrom(resp.bytes, HeaderLen)

\* the question section a client expects back: its questions in order, the
\* names written out in full
ExpectedSection(qs) == QuestionsToBytes([i \in 1..Len(qs) |-> ExpectedQuestion(qs, i)])

\* the question section of the request last received, as echoed
EchoedSection ==
    IF req.kind = "query" THEN ExpectedSection(req.qs) ELSE QuestionsToBytes(questions)

\* &buf[12..] as the question decoder saw it
Data == SliceFrom(buf, HeaderLen)

\* a probe was received whole
WholeProbe == req.kind = "probe" /\ req.cut = 0

RECURSIVE HasSynthesizedAnswers(_, _)
\* bytes are one record per question of qs: its name, qtype and class,
\* ttl 60, rdlength 4 and 4 bytes of rdata
HasSynthesizedAnswers(bytes, qs) ==
    IF qs = <<>>
    THEN bytes = <<>>
    ELSE LET fixed == QuestionToBytes(Head(qs)) \o <<0, 0, 0, 60>> \o <<0, 4>> IN
         /\ Len(bytes) >= Len(fixed) + 4
         /\ SubSeq(bytes, 1, Len(fixed)) = fixed
         /\ HasSynthesizedAnswers(SubSeq(bytes, Len(fixed) + 5, Len(bytes)), Tail(qs))

(***************************************************************************)
(* The claims.                                                             *)
(***************************************************************************)
\* C1: encoding a header whose fields are within their bit widths gives 12
\* bytes, and decoding those bytes gives back the same header, field by field.
HeaderRoundTrip ==
    hpc = "decoded" => (Len(hdrBytes) = 12 /\ hdrBack = [tag |-> "Ok", h |-> hdr])

HeaderRoundTripWitness ==
    /\ hpc = "decoded"
    /\ hdr.op_code = 15 /\ hdr.z = 7 /\ hdr.rcode = 15 /\ hdr.ra /\ hdr.qr
    /\ hdrBack.h = hdr

\* C2: with no resolver configured, the response to an op_code 0 request with
\* N questions has an_count = N and carries one synthesized answer per
\* question: the question's name, qtype and class, ttl 60, 4 bytes of rdata.
SynthesizedAnswers ==
    (~resolver /\ Sent /\ req.kind = "query" /\ request_header.op_code = 0) =>
        /\ RespHeader.an_count = Len(questions)
        /\ Len(RespBody) >= Len(QuestionsToBytes(questions))
        /\ HasSynthesizedAnswers(SliceFrom(RespBody, Len(QuestionsToBytes(questions))),
                                 questions)

\* C3: with no resolver configured, no query is ever sent upstream and none
\* is waited for, the answer list is empty, and a response is the header
\* followed by the questions and nothing else.
NoResolverNoUpstream ==
    ~resolver =>
        /\ queries = <<>>
        /\ pc \notin {"query", "await"}
        /\ answers = <<>>
        /\ Sent => /\ RespBody = QuestionsToBytes(questions)
                   /\ RespHeader.an_count = 0

NoResolverNoUpstreamWitness ==
    /\ ~resolver
    /\ resp.kind = "answered"
    /\ Len(questions) = 3
    /\ Len(resp.bytes) = HeaderLen + Len(ExpectedSection(req.qs))

\* C4: with a resolver configured, when the resolving of a request ended
\* before every question had its answer, a response was sent, and it is the
\* header with an_count = 0 followed by every decoded question and no answer
\* bytes, whatever number of answers had been obtained before the failure.
ForwardingAllOrNothing ==
    (resolver /\ pc = "recv" /\ Len(answers) < Len(questions)) =>
        /\ Sent
        /\ RespHeader.an_count = 0
        /\ RespHeader.qd_count = Len(questions)
        /\ RespBody = QuestionsToBytes(questions)
        /\ RespBody = EchoedSection

ForwardingAllOrNothingWitness ==
    /\ resolver
    /\ pc = "recv"
    /\ Len(questions) = 3
    /\ Len(answers) = 1
    /\ Sent
    /\ RespHeader.an_count = 0

\* C5: every response has the request's id, qr set, qd_count = the number
\* of decoded questions, an_count = the number of answer records that follow
\* the questions (none on the failure path), rcode 0 for op_code 0 and 4
\* otherwise, and op_code, aa, tc, rd, ra and z as decoded from the request.
ResponseHeaderFields ==
    Sent =>
        /\ RespHeader.id = request_header.id
        /\ req.kind = "query" => (RespHeader.id = req.id /\ RespHeader.op_code = req.op_code)
        /\ RespHeader.qr
        /\ RespHeader.qd_count = Len(questions)
        /\ RespHeader.an_count = (IF resp.kind = "answered" THEN Len(answers) ELSE 0)
        /\ RespBody = QuestionsToBytes(questions)
                      \o (IF resp.kind = "answered" THEN AnswersToBytes(answers) ELSE <<>>)
        /\ RespHeader.rcode = (IF request_header.op_code = 0 THEN 0 ELSE 4)
        /\ RespHeader.op_code = request_header.op_code
        /\ RespHeader.aa = request_header.aa
        /\ RespHeader.tc = request_header.tc
        /\ RespHeader.rd = request_header.rd
        /\ RespHeader.ra = request_header.ra
        /\ RespHeader.z = request_header.z

ResponseHeaderFieldsWitness ==
    /\ resp.kind = "answered"
    /\ req = FlagsRequest
    /\ resolver
    /\ RespHeader.an_count = 1
    /\ RespHeader.z = 5
    /\ RespHeader.rcode = 0

\* C6 as stated: every response to a request whose op_code is not 0, with or
\* without a resolver, has rcode = 4 and an_count = 0 and echoes the
\* request's question section.
NonZeroOpcodeNoAnswers ==
    (Sent /\ request_header.op_code # 0) =>
        /\ RespHeader.rcode = 4
        /\ RespHeader.an_count = 0
        /\ SubSeq(RespBody, 1, Len(EchoedSection)) = EchoedSection

\* C6 as amended: every response to a request whose op_code is not 0 has
\* rcode = 4 and echoes the request's question section; its an_count is the
\* number of questions when a resolver is configured and answered every one
\* of them, and 0 otherwise.
NonZeroOpcodeResponse ==
    (Sent /\ request_header.op_code # 0) =>
        /\ RespHeader.rcode = 4
        /\ SubSeq(RespBody, 1, Len(EchoedSection)) = EchoedSection
        /\ RespHeader.an_count =
               (IF resolver /\ Len(answers) = Len(questions) THEN Len(questions) ELSE 0)

NonZeroOpcodeResponseWitness ==
    /\ Sent
    /\ request_header.op_code = 1
    /\ resolver
    /\ Len(questions) = 2
    /\ RespHeader.an_count = 2
    /\ RespHeader.rcode = 4

\* C7: in a request received whole, every question decodes, and the name of
\* a question that ends in (or is only) a pointer to an earlier name is its
\* inline labels followed by the name decoded at the pointer's target; a
\* question that is only a pointer to the first question's name gets the
\* first question's name.
CompressionExpansion ==
    WholeProbe =>
        /\ resp.kind = "answered"
        /\ Len(questions) = Len(req.qs)
        /\ \A i \in 1..Len(req.qs) :
               req.qs[i].ptr # 0 =>
                   /\ questions[i].name =
                          WireLabels(req.qs[i].labels)
                          \o parse_labels(Data, PointerTarget(req.qs, i) - HeaderLen).labels
                   /\ (req.qs[i].labels = <<>> /\ req.qs[i].skip = 0)
                          => questions[i].name = questions[req.qs[i].ptr].name

\* C8: a name that ends in a pointer is decoded with a consumed count of its
\* inline label bytes plus 2, whatever the length of the name at the target;
\* when the section decodes, the question's qtype and class are the 4 bytes
\* after the pointer and the next question is decoded from right after them.
PointerBytesConsumed ==
    WholeProbe =>
        \A i \in 1..Len(req.qs) :
            req.qs[i].ptr # 0 =>
                /\ parse_labels(Data, NameOffset(req.qs, i) - HeaderLen).tag = "Ok"
                /\ parse_labels(Data, NameOffset(req.qs, i) - HeaderLen).consumed
                       = Len(WireLabels(req.qs[i].labels)) + 2
                /\ resp.kind = "answered" =>
                       /\ questions[i].qtype = req.qs[i].qtype
                       /\ questions[i].class = req.qs[i].class
                       /\ i < Len(req.qs) => questions[i + 1] = ExpectedQuestion(req.qs, i + 1)

PointerBytesConsumedWitness ==
    /\ WholeProbe
    /\ resp.kind = "answered"
    /\ Len(req.qs) = 3
    /\ req.qs[1] = QB
    /\ req.qs[2] = QPtr(1)
    /\ questions[2].qtype = 5
    /\ questions[3] = ExpectedQuestion(req.qs, 3)

\* C9: a question section of exactly qd_count well-formed questions back to
\* back decodes to exactly qd_count questions, the (name, qtype, class) of
\* the input in order, each question taking its name bytes + 4.
QuestionCountFidelity ==
    WholeProbe =>
        /\ resp.kind = "answered"
        /\ request_header.qd_count = Len(req.qs)
        /\ Len(questions) = Len(req.qs)
        /\ \A i \in 1..Len(req.qs) :
               /\ questions[i] = ExpectedQuestion(req.qs, i)
               /\ parse_question(Data, size - HeaderLen, NameOffset(req.qs, i) - HeaderLen).consumed
                      = WireNameLen(req.qs[i]) + 4

\* C10: a request whose last question lost one or more of its trailing
\* bytes, qd_count unchanged, is rejected with InvalidQuestion.
UnderrunRejected ==
    (req.kind = "probe" /\ req.cut >= 1) => resp.kind = "noquestions"

\* C11: for every sequence of labels, each of 1..63 bytes, whose encoded form
\* (the labels behind their length bytes, then the zero byte) is at most 512
\* bytes, decoding gives a name whose bytes are the encoded bytes, and
\* encoding the decoded question emits those bytes unchanged.
NameRoundTrip ==
    (ppc \in {"decoded", "reencoded"}) =>
        /\ Len(EncodedName(pin)) <= BufSize
        /\ pout.tag = "Ok"
        /\ Len(pout.qs) = 1
        /\ pout.qs[1].name = EncodedName(pin)
        /\ (ppc = "reencoded") =>
               /\ SubSeq(pback, 1, Len(EncodedName(pin))) = EncodedName(pin)
               /\ pback = NameQuestion(pin)

NameRoundTripWitness ==
    /\ ppc = "reencoded"
    /\ pin = LongestName
    /\ Len(pout.qs[1].name) = BufSize
    /\ Len(pback) = BufSize + 4

\* C12: whatever datagrams arrive, of any length and contents, and whatever
\* the upstream replies or fails with, the receive loop is still running;
\* nothing but an error of recv_from on the listening socket stops it.
LoopSurvivesInput == pc \in {"recv", "query", "await", "stopped"}

\* the reply the claims expect after a forwarding failure: the response
\* header with an_count = 0, then the questions and nothing else
QuestionOnlyReply ==
    /\ RespHeader.an_count = 0
    /\ RespHeader.qd_count = Len(questions)
    /\ RespBody = QuestionsToBytes(questions)

\* C13: a datagram gets no reply when its header cannot be parsed or its
\* questions fail to decode, and exactly one reply otherwise, which after a
\* forwarding failure is the question-only reply with an_count = 0.
PerDatagramOutcome ==
    (req.kind # "none" /\ pc \in {"recv", "stopped", "crashed"}) =>
        IF Len(req.bytes) < HeaderLen
        THEN ~Sent
        ELSE IF dns_questions_from_bytes(Data, QuestionsSize(size),
                                         request_header.qd_count).tag = "InvalidQuestion"
        THEN ~Sent
        ELSE /\ Sent
             /\ (resp.kind = "fallback") => QuestionOnlyReply

\* C14: for every datagram and every qd_count, decoding the questions ends
\* in a list of questions or in InvalidQuestion, never in an abort on a
\* read outside the bytes received: label lengths running past the end,
\* pointers with the second byte missing, pointer targets below offset 12
\* and pointer targets past the end of the data included.
DecodingBoundsSafe ==
    (req.kind # "none" /\ Len(req.bytes) >= HeaderLen) =>
        dns_questions_from_bytes(Data, size - HeaderLen, request_header.qd_count).tag
            \in {"Ok", "InvalidQuestion"}

\* the query resolve_questions owes for question i: the 12 header bytes of
\* the request with qd_count = 1, then the question's name, qtype and class
ExpectedQuery(i) ==
    SubSeq(buf, 1, 4) \o <<0, 1>> \o SubSeq(buf, 7, HeaderLen)
    \o questions[i].name \o U16ToBe(questions[i].qtype) \o U16ToBe(questions[i].class)

\* the queries sent so far are those of the first questions, in order, and
\* at most one of them is without its reply
QueriesInOrder ==
    resolver =>
        /\ Len(queries) <= Len(questions)
        /\ \A i \in 1..Len(queries) : queries[i] = ExpectedQuery(i)
        /\ Len(replies) <= Len(queries)
        /\ Len(queries) <= Len(replies) + 1
        /\ Len(answers) <= Len(replies)
        /\ (pc = "query") => (Len(queries) = Len(answers) /\ Len(replies) = Len(answers))
        /\ (pc = "await") => (Len(queries) = Len(answers) + 1 /\ Len(replies) = Len(answers))

\* a query is sent only while forwarding is under way with every earlier
\* reply received and decoded, and a datagram is received only when the
\* handling of the one before is over
OneExchangeAtATime ==
    /\ (queries' # queries /\ queries' # <<>>) =>
           /\ pc = "query"
           /\ resp.kind = "pending"
           /\ Len(replies) = Len(queries)
           /\ Len(answers) = Len(queries)
           /\ queries' = Append(queries, ExpectedQuery(Len(queries) + 1))
    /\ (nrecv' # nrecv) =>
           /\ pc = "recv"
           /\ resp.kind # "pending"

\* C15: with a resolver, the queries go out in question order, each the
\* request header with qd_count = 1 followed by the bytes of one question;
\* query i + 1 is sent only after the reply to query i was received and
\* decoded, none is sent after a failure, and the next datagram is read only
\* after the current one was responded to.
ForwardingOrder == []QueriesInOrder /\ [][OneExchangeAtATime]_vars

ForwardingOrderWitness ==
    /\ resolver
    /\ pc = "await"
    /\ request_header.qd_count = 3
    /\ Len(queries) = 3
    /\ Len(replies) = 2
    /\ queries[3] = <<18, 52, 1, 0, 0, 1, 0, 0, 0, 0, 0, 0>>
                    \o <<1, 102, 1, 100, 0>> \o <<0, 15, 0, 4>>

\* the record at offset 12 + (length of the question bytes of query i), that
\* is at the length of query i, of the reply to it
RecordOfReply(i) ==
    dns_response_from_bytes(SliceFrom(resolver_buf(replies[i]), Len(queries[i]))).r

\* the answer section owed after a forwarding that succeeded
ForwardedAnswers == AnswersToBytes([i \in 1..Len(questions) |-> RecordOfReply(i)])

\* C16: a response is 12 header bytes, then the decoded questions encoded in
\* their order, then the answers in question order; after a forwarding that
\* succeeded there is one answer per question, the i-th being the record
\* decoded from the reply to the i-th query at offset 12 + the length of the
\* question bytes sent in it.
ResponseLayout ==
    Sent =>
        /\ Len(resp.bytes) >= HeaderLen
        /\ Len(SubSeq(resp.bytes, 1, HeaderLen)) = HeaderLen
        /\ IF resolver /\ resp.kind = "answered" /\ questions # <<>>
           THEN /\ Len(replies) = Len(questions)
                /\ Len(queries) = Len(questions)
                /\ Len(answers) = Len(questions)
                /\ RespHeader.an_count = Len(questions)
                /\ \A i \in 1..Len(questions) : answers[i] = RecordOfReply(i)
                /\ RespBody = QuestionsToBytes(questions) \o ForwardedAnswers
           ELSE RespBody = QuestionsToBytes(questions)

ResponseLayoutWitness ==
    /\ resolver
    /\ resp.kind = "answered"
    /\ req.qs = <<QA, QB, QPtrSuffix(2)>>
    /\ Len(replies) = 3
    /\ SubSeq(RespBody, 1, Len(ExpectedSection(req.qs))) = ExpectedSection(req.qs)
    /\ HasSynthesizedAnswers(SliceFrom(RespBody, Len(ExpectedSection(req.qs))), questions)
    /\ Len(resp.bytes) = HeaderLen + 2 * Len(ExpectedSection(req.qs)) + 3 * 10

\* the length of the name a record starts with, its zero byte included:
\* the place of the first zero byte, or one past the end when there is none
FirstZero(data) ==
    IF \E i \in 1..Len(data) : data[i] = 0
    THEN CHOOSE i \in 1..Len(data) : data[i] = 0 /\ \A j \in 1..(i - 1) : data[j] # 0
    ELSE Len(data) + 1

\* C17: every record the record decoder returns has its length field equal
\* to the number of rdata bytes it holds, and the decoder returns
\* InvalidResponse when the input starts with a zero byte, when fewer than
\* 10 bytes follow the name, or when the declared rdlength exceeds the bytes
\* left after the fixed fields.
RecordLengthConsistent ==
    (ppc = "recordDone") =>
        LET n == FirstZero(pin)
            follow == Len(pin) - n
        IN  /\ pout.tag \in {"Ok", "InvalidResponse"}
            /\ (pout.tag = "Ok") =>
                   /\ pout.r.length = Len(pout.r.data)
                   /\ pout.r.length = 256 * pin[n + 9] + pin[n + 10]
                   /\ pout.r.data = SubSeq(pin, n + 11, n + 10 + pout.r.length)
            /\ (\/ follow < 10
                \/ pin[1] = 0
                \/ 256 * pin[n + 9] + pin[n + 10] > follow - 10)
                   => pout.tag = "InvalidResponse"

RECURSIVE WellShapedName(_)
\* labels, each a length byte in 1..63 and that many bytes, then one zero
\* byte, the last byte of the name
WellShapedName(name) ==
    IF name = <<>>
    THEN FALSE
    ELSE IF Head(name) = 0
    THEN Len(name) = 1
    ELSE /\ Head(name) \in 1..63
         /\ Len(name) > Head(name)
         /\ WellShapedName(SubSeq(name, Head(name) + 2, Len(name)))

\* C18: every name a successful question decode returns, pointers in the
\* input or not, is a sequence of labels (a length byte in 1..63 and that
\* many bytes) ended by exactly one zero byte, with no compression pointer
\* where a length byte stands; so the question section echoed in a response
\* holds such names only.
DecodedNameShape ==
    /\ \A i \in 1..Len(questions) : WellShapedName(questions[i].name)
    /\ Sent => SubSeq(RespBody, 1, Len(QuestionsToBytes(questions)))
                   = QuestionsToBytes(questions)

DecodedNameShapeWitness ==
    /\ nrecv = 2
    /\ WholeProbe
    /\ req.qs = <<QB, QPtr(1)>>
    /\ Sent
    /\ questions[2].name = <<1, 101, 2, 98, 99, 1, 100, 0>>
    /\ RespBody = <<2, 98, 99, 1, 100, 0, 0, 28, 0, 3>>
                  \o <<1, 101, 2, 98, 99, 1, 100, 0, 0, 5, 0, 1>>

\* the buffer, had the datagram last received arrived first
FreshBuf == Stored(Zeros(BufSize), req.bytes)

\* the questions main would decode from it there
FreshQuestions ==
    dns_questions_from_bytes(SliceFrom(FreshBuf, HeaderLen), QuestionsSize(size),
                             HeaderFromBytes(Slice(FreshBuf, 0, HeaderLen)).h.qd_count)

\* C19: the response to a datagram depends on the bytes received in it only:
\* whatever earlier datagrams left in the receive buffer, the datagram is
\* accepted exactly when it is accepted as the first datagram, and is
\* answered with the same bytes, also when a compression pointer targets an
\* offset at or past the datagram's length.
RequestIsolation ==
    (req.kind # "none" /\ ~resolver /\ pc = "recv") =>
        /\ Sent <=> (FreshQuestions.tag = "Ok")
        /\ Sent => resp.bytes = AnsweredResponse(
                                    HeaderFromBytes(Slice(FreshBuf, 0, HeaderLen)).h,
                                    FreshQuestions.qs, <<>>)

\* C20: decoding a name ends on every input, with a name or with an error,
\* also when a compression pointer targets its own offset or the pointers
\* form a cycle.
NameDecodingTerminates ==
    (req.kind # "none") =>
        dns_questions_from_bytes(Data, QuestionsSize(size), request_header.qd_count).tag
            # "StackOverflow"

====
